---- MODULE Spec2Model ----
(***************************************************************************)
(* Model of minuitwrp/truetype.c: the TrueType font registry               *)
(* (gr_ttf_loadFont / gr_ttf_freeFont), the per-font glyph cache, the      *)
(* per-font LRU string cache (gr_ttf_string_cache_get), the text shaper    *)
(* (gr_ttf_render_text), and the measuring / drawing entry points, each    *)
(* run by threads that take the registry mutex or a font's own mutex.      *)
(***************************************************************************)
EXTENDS Integers, Sequences, FiniteSets, TLC

VARIABLES
    font_data,  \* the static FontData: ft_library, fonts (hashmap), mutex
    font,       \* heap of TrueTypeFont objects, by handle
    nextHandle, \* next handle malloc gives out (handles are never reused)
    pc,         \* per thread: position inside the call it is running
    call,       \* per thread: arguments and locals of the running call
    ret,        \* per thread: value returned by its last completed call
    drawn,      \* per thread: rectangle passed to gl->recti by its last render
    loads,      \* per font key: successful gr_ttf_loadFont calls so far
    releases,   \* per font key: completed gr_ttf_freeFont calls so far
    budget,     \* test driver: calls (SpecText) or cache hits (SpecCache) used up
    offered,    \* test driver: distinct string-cache keys requested so far
    guarded,    \* test driver: keys it hit below the truncation threshold
                \* since the last truncation batch
    evicted,    \* test driver: keys the last call removed from the string cache
    before      \* test driver: recency list at the start of that call

vars == <<font_data, font, nextHandle, pc, call, ret, drawn, loads, releases,
          budget, offered, guarded, evicted, before>>

-----------------------------------------------------------------------------
(* Program constants *)

STRING_CACHE_MAX_ENTRIES == 400
STRING_CACHE_TRUNCATE_ENTRIES == 150

(* Bounds of the model *)

NumThreads == 2      \* threads calling into the library
MaxLoads == 2        \* successful gr_ttf_loadFont calls in one run
MaxKeys == 403       \* distinct string-cache keys offered in SpecCache
EarlyLen == 2        \* SpecCache tries hits while the cache has <= EarlyLen entries
MaxHits == 2         \* cache hits tried in one SpecCache run
MaxCalls == 2        \* calls made in one SpecText or SpecDecode run
MaxBeyond == 3       \* bytes of memory modelled after a string's terminator

NULL == 0
NOKEY == <<>>        \* the NULL StringCacheEntry pointer
Threads == 1..NumThreads

-----------------------------------------------------------------------------
(* The rasterizer, as the calls of this file see it.  A face is named by   *)
(* the path it was opened from.                                            *)

GoodPath == "good.ttf"
TofuPath == "tofu.ttf"        \* opens, but no glyph of it can be loaded
MissingPath == "missing.ttf"  \* FT_New_Face fails

\* FT_New_Face(ft_library, filename, 0, &face) != 0
FT_New_Face_fails(path) == path = MissingPath

\* FT_Set_Char_Size(face, 0, size*16, dpi, dpi) != 0
FT_Set_Char_Size_fails(size, dpi) == dpi = 0

\* FT_Get_Char_Index(face, c): 'A' -> 1, 'V' -> 2, 'B' -> 3, U+4E2D -> 4,
\* every other code point -> 0 (the missing glyph)
FT_Get_Char_Index(c) ==
    CASE c = 65 -> 1
      [] c = 86 -> 2
      [] c = 66 -> 3
      [] c = 20013 -> 4
      [] OTHER -> 0

\* FT_Load_Glyph / FT_Get_Glyph fail: glyph 3 of any face, all of TofuPath
FT_Load_Glyph_fails(face, idx) == face = TofuPath \/ idx = 3

\* glyph->root.advance.x >> 16
Advance(idx) ==
    CASE idx = 1 -> 2
      [] idx = 2 -> 3
      [] idx = 4 -> 4
      [] OTHER -> 1

\* FT_HAS_KERNING(face)
FT_HAS_KERNING(face) == face = GoodPath

\* FT_Get_Kerning(face, prev_idx, char_idx, ...); delta.x >> 6
Kerning(prev_idx, char_idx) ==
    IF prev_idx = 1 /\ char_idx = 2 THEN -1 ELSE 0

\* FT_Glyph_Get_CBox(glyph, FT_GLYPH_BBOX_PIXELS, &bbox): yMin, yMax
CBox(idx) ==
    CASE idx = 1 -> [yMin |-> 0, yMax |-> 5]
      [] idx = 2 -> [yMin |-> -1, yMax |-> 5]
      [] idx = 4 -> [yMin |-> -1, yMax |-> 6]
      [] OTHER -> [yMin |-> 0, yMax |-> 4]

LONG_MAX == 2147483647
LONG_MIN == (-LONG_MAX) - 1

MIN(X, Y) == IF X < Y THEN X ELSE Y
MAX(X, Y) == IF X > Y THEN X ELSE Y

-----------------------------------------------------------------------------
(* Text decoding *)

\* utf8_to_unicode: an unsigned short built from three bytes
utf8_to_unicode(c1, c2, c3) ==
    (((c1 % 32) * 4096) + ((c2 % 64) * 64) + (c3 % 64)) % 65536

\* *text_itr at offset i (1-based); the byte after the last one is the NUL
ByteAt(text, i) == IF i <= Len(text) THEN text[i] ELSE 0

\* the glyph indices produced by the decoding loop from offset i on:
\* one byte below 0x80, else that byte and the two that follow it
RECURSIVE DecodeFrom(_, _)
DecodeFrom(text, i) ==
    LET c == ByteAt(text, i) IN
    IF c = 0 THEN <<>>
    ELSE IF c < 128
         THEN <<FT_Get_Char_Index(c)>> \o DecodeFrom(text, i + 1)
         ELSE <<FT_Get_Char_Index(
                    utf8_to_unicode(c, ByteAt(text, i + 1), ByteAt(text, i + 2)))>>
              \o DecodeFrom(text, i + 3)

Decode(text) == DecodeFrom(text, 1)

\* the memory text points to: the string, its terminator, and the bytes
\* that happen to lie behind it; nothing is mapped after them
CString(text, beyond) == text \o <<0>> \o beyond

\* "c = *text_itr++" and, for c >= 0x80, "c2 = *text_itr++; c3 = *text_itr++"
\* with text_itr at offset itr of mem: end is the loop condition failing,
\* fault a read of a byte that is not mapped, reads the last offset read
DecodeRead(mem, itr) ==
    IF itr > Len(mem)
    THEN [fault |-> TRUE, end |-> FALSE, char_idx |-> 0, itr |-> itr,
          reads |-> itr]
    ELSE IF mem[itr] = 0
    THEN [fault |-> FALSE, end |-> TRUE, char_idx |-> 0, itr |-> itr + 1,
          reads |-> itr]
    ELSE IF mem[itr] < 128
    THEN [fault |-> FALSE, end |-> FALSE,
          char_idx |-> FT_Get_Char_Index(mem[itr]), itr |-> itr + 1,
          reads |-> itr]
    ELSE IF itr + 2 > Len(mem)
    THEN [fault |-> TRUE, end |-> FALSE, char_idx |-> 0, itr |-> itr,
          reads |-> Len(mem) + 1]
    ELSE [fault |-> FALSE, end |-> FALSE,
          char_idx |-> FT_Get_Char_Index(
                           utf8_to_unicode(mem[itr], mem[itr + 1], mem[itr + 2])),
          itr |-> itr + 3, reads |-> itr + 2]

-----------------------------------------------------------------------------
(* TrueTypeFont objects *)

\* a pthread mutex: the thread that holds it (NULL: free) and, for the
\* outcome in which relocking succeeds, how often it holds it
FreeMutex == [owner |-> NULL, count |-> 0]

\* memory that was never allocated, or was freed by gr_ttf_freeFont
NoFont ==
    [alive |-> FALSE, refcount |-> 0, size |-> 0, dpi |-> 0,
     max_height |-> 0, base |-> 0, face |-> "", glyph_cache |-> {},
     string_cache |-> <<>>, string_cache_head |-> NOKEY,
     string_cache_tail |-> NOKEY, mutex |-> FreeMutex, key |-> <<>>]

\* the object gr_ttf_loadFont builds for a key <<path, size, dpi>>
NewFont(key) ==
    [alive |-> TRUE, refcount |-> 1, size |-> key[2], dpi |-> key[3],
     max_height |-> -1, base |-> -1, face |-> key[1], glyph_cache |-> {},
     string_cache |-> <<>>, string_cache_head |-> NOKEY,
     string_cache_tail |-> NOKEY, mutex |-> FreeMutex, key |-> key]

hashmapSize(map) == Cardinality(DOMAIN map)

-----------------------------------------------------------------------------
(* Glyph cache *)

\* a gr_ttf_glyph_cache_get that stores an entry for a glyph it could not
\* load (a fault C14 must notice)
glyph_cache_get_keep_failure(f, char_index) ==
    IF char_index \in f.glyph_cache
    THEN [res |-> ~FT_Load_Glyph_fails(f.face, char_index), loaded |-> FALSE,
          glyph_cache |-> f.glyph_cache]
    ELSE [res |-> ~FT_Load_Glyph_fails(f.face, char_index), loaded |-> TRUE,
          glyph_cache |-> f.glyph_cache \cup {char_index}]

\* gr_ttf_glyph_cache_get: res is TRUE when an entry is returned, loaded
\* when FT_Load_Glyph was called
gr_ttf_glyph_cache_get(f, char_index) ==
    IF char_index \in f.glyph_cache
    THEN [res |-> TRUE, loaded |-> FALSE, glyph_cache |-> f.glyph_cache]
    ELSE IF FT_Load_Glyph_fails(f.face, char_index)
         THEN [res |-> FALSE, loaded |-> TRUE, glyph_cache |-> f.glyph_cache]
         ELSE [res |-> TRUE, loaded |-> TRUE,
               glyph_cache |-> f.glyph_cache \cup {char_index}]

-----------------------------------------------------------------------------
(* Text shaper *)

\* the kerning added before glyph char_idx when it follows prev_idx
KernDelta(f, prev_idx, char_idx) ==
    IF FT_HAS_KERNING(f.face) /\ prev_idx # 0 /\ char_idx # 0
    THEN Kerning(prev_idx, char_idx)
    ELSE 0

\* a first loop that tests the width reached before the glyph instead of
\* the width with the glyph, as gr_ttf_maxExW does (a fault C17 must notice)
RECURSIVE RenderMeasureLoopLate(_, _, _, _, _, _, _)
RenderMeasureLoopLate(f, idxs, i, max_len, total_w, prev_idx, max_width) ==
    IF i > Len(idxs)
    THEN [max_len |-> max_len, total_w |-> total_w, glyph_cache |-> f.glyph_cache]
    ELSE LET char_idx == idxs[i]
             g == gr_ttf_glyph_cache_get(f, char_idx)
             f1 == [f EXCEPT !.glyph_cache = g.glyph_cache]
             diff == Advance(char_idx) + KernDelta(f, prev_idx, char_idx)
         IN  IF g.res /\ max_width # -1 /\ total_w > max_width
             THEN [max_len |-> max_len, total_w |-> total_w,
                   glyph_cache |-> f1.glyph_cache]
             ELSE RenderMeasureLoopLate(f1, idxs, i + 1, max_len + 1,
                                        IF g.res THEN total_w + diff ELSE total_w,
                                        char_idx, max_width)

\* the first loop of gr_ttf_render_text, from glyph i on
RECURSIVE RenderMeasureLoop(_, _, _, _, _, _, _)
RenderMeasureLoop(f, idxs, i, max_len, total_w, prev_idx, max_width) ==
    IF i > Len(idxs)
    THEN [max_len |-> max_len, total_w |-> total_w, glyph_cache |-> f.glyph_cache]
    ELSE LET char_idx == idxs[i]
             g == gr_ttf_glyph_cache_get(f, char_idx)
             f1 == [f EXCEPT !.glyph_cache = g.glyph_cache]
             diff == Advance(char_idx) + KernDelta(f, prev_idx, char_idx)
         IN  IF g.res /\ max_width # -1 /\ total_w + diff > max_width
             THEN [max_len |-> max_len, total_w |-> total_w,
                   glyph_cache |-> f1.glyph_cache]
             ELSE RenderMeasureLoop(f1, idxs, i + 1, max_len + 1,
                                    IF g.res THEN total_w + diff ELSE total_w,
                                    char_idx, max_width)

\* gr_ttf_render_text up to the metrics check
RenderMeasure(f, text, max_width) ==
    RenderMeasureLoop(f, Decode(text), 1, 0, 0, 0, max_width)

\* the compositing loop of gr_ttf_render_text: glyph cache after it
RECURSIVE RenderComposite(_, _, _, _)
RenderComposite(f, idxs, i, max_len) ==
    IF i > max_len
    THEN f.glyph_cache
    ELSE RenderComposite(
             [f EXCEPT !.glyph_cache = gr_ttf_glyph_cache_get(f, idxs[i]).glyph_cache],
             idxs, i + 1, max_len)

-----------------------------------------------------------------------------
(* String cache *)

StringCacheKey(text, max_width) == <<text, max_width>>

\* gr_ttf_string_cache_peek: the entry's key, or NOKEY
gr_ttf_string_cache_peek(f, text, max_width) ==
    IF StringCacheKey(text, max_width) \in DOMAIN f.string_cache
    THEN StringCacheKey(text, max_width)
    ELSE NOKEY

\* an insertion that does not set res->prev->next (a fault C19 must notice)
StringCacheInsertNoLink(f, text, max_width, max_len, total_w) ==
    LET k == StringCacheKey(text, max_width)
        e == [rendered_len |-> max_len,
              surface |-> [width |-> total_w, height |-> f.max_height],
              prev |-> f.string_cache_tail, next |-> NOKEY]
    IN  [f EXCEPT !.string_cache = (k :> e) @@ f.string_cache,
                  !.string_cache_head = IF f.string_cache_tail # NOKEY
                                        THEN f.string_cache_head ELSE k,
                  !.string_cache_tail = k]

\* the miss branch of gr_ttf_string_cache_get once gr_ttf_render_text has
\* measured the text and the metrics are known: build the surface, append
\* the entry to the tail of the list, put it into the hashmap
StringCacheInsertIdxs(f, char_idxs, text, max_width, max_len, total_w) ==
    LET k == StringCacheKey(text, max_width)
        gc == RenderComposite(f, char_idxs, 1, max_len)
        e == [rendered_len |-> max_len,
              surface |-> [width |-> total_w, height |-> f.max_height],
              prev |-> f.string_cache_tail, next |-> NOKEY]
        sc1 == IF f.string_cache_tail # NOKEY
               THEN [f.string_cache EXCEPT ![f.string_cache_tail].next = k]
               ELSE f.string_cache
    IN  [f EXCEPT !.glyph_cache = gc,
                  !.string_cache = (k :> e) @@ sc1,
                  !.string_cache_head = IF f.string_cache_tail # NOKEY
                                        THEN f.string_cache_head ELSE k,
                  !.string_cache_tail = k]

\* the same for a text whose decoding read nothing behind its terminator
StringCacheInsert(f, text, max_width, max_len, total_w) ==
    StringCacheInsertIdxs(f, Decode(text), text, max_width, max_len, total_w)

\* a hit that leaves the list as it is (a fault C10 must notice)
StringCachePromoteNone(f, k) == f

\* "move this entry to the tail of the linked list": res->next is not NULL
StringCachePromote(f, k) ==
    LET res == f.string_cache[k]
        sc1 == IF res.prev # NOKEY
               THEN [f.string_cache EXCEPT ![res.prev].next = res.next]
               ELSE f.string_cache
        sc2 == [sc1 EXCEPT ![res.next].prev = res.prev]
        head == IF res.prev = NOKEY THEN res.next ELSE f.string_cache_head
        sc3 == [sc2 EXCEPT ![k].next = NOKEY, ![k].prev = f.string_cache_tail]
        sc4 == [sc3 EXCEPT ![f.string_cache_tail].next = k]
    IN  [f EXCEPT !.string_cache = sc4,
                  !.string_cache_head = head,
                  !.string_cache_tail = k]

\* hashmapRemove(font->string_cache, ent->key); merging with the empty
\* function changes nothing and has the table built at once
StringCacheRemove(map, key) == [x \in DOMAIN map \ {key} |-> map[x]] @@ <<>>

\* "truncate old entries": one pass of the loop body
StringCacheTruncateOne(f) ==
    LET ent == f.string_cache_head
        head == f.string_cache[ent].next
        sc1 == [f.string_cache EXCEPT ![head].prev = NOKEY]
    IN  [f EXCEPT !.string_cache = StringCacheRemove(sc1, ent),
                  !.string_cache_head = head]

\* n passes of the loop body, one after the other; the size test is always
\* true and has the first half of the passes computed before the second
\* half is begun
RECURSIVE StringCacheTruncate(_, _)
StringCacheTruncate(f, n) ==
    IF n = 0 THEN f
    ELSE IF n = 1 THEN StringCacheTruncateOne(f)
    ELSE LET g == StringCacheTruncate(f, n \div 2) IN
         IF hashmapSize(g.string_cache) >= 0
         THEN StringCacheTruncate(g, n - (n \div 2))
         ELSE g

\* the hit branch of gr_ttf_string_cache_get
StringCacheHit(f, k) ==
    IF f.string_cache[k].next # NOKEY
    THEN LET f1 == StringCachePromote(f, k) IN
         IF hashmapSize(f1.string_cache) >= STRING_CACHE_MAX_ENTRIES
         THEN StringCacheTruncate(f1, STRING_CACHE_TRUNCATE_ENTRIES)
         ELSE f1
    ELSE f

\* a gr_ttf_string_cache_get that renders and inserts without looking the
\* key up first (a fault C13 must notice)
string_cache_get_rerender(f, text, max_width) ==
    LET m == RenderMeasure(f, text, max_width)
        f1 == [f EXCEPT !.glyph_cache = m.glyph_cache]
    IN  [font |-> StringCacheInsert(f1, text, max_width, m.max_len, m.total_w),
         res |-> StringCacheKey(text, max_width), rendered |-> TRUE]

\* gr_ttf_string_cache_get on a font whose metrics are known, or on a hit:
\* the font afterwards, the entry returned (its key), and whether
\* gr_ttf_render_text was called
gr_ttf_string_cache_get(f, text, max_width) ==
    LET k == StringCacheKey(text, max_width) IN
    IF k \in DOMAIN f.string_cache
    THEN [font |-> StringCacheHit(f, k), res |-> k, rendered |-> FALSE]
    ELSE LET m == RenderMeasure(f, text, max_width)
             f1 == [f EXCEPT !.glyph_cache = m.glyph_cache]
         IN  [font |-> StringCacheInsert(f1, text, max_width, m.max_len, m.total_w),
              res |-> k, rendered |-> TRUE]

\* the n entries of the recency list from k on, following next
RECURSIVE ListFrom(_, _, _)
ListFrom(sc, k, n) ==
    IF k = NOKEY \/ n = 0 THEN <<>>
    ELSE IF n = 1 THEN <<k>>
    ELSE LET first == ListFrom(sc, k, n \div 2) IN
         IF Len(first) < n \div 2 THEN first
         ELSE first \o ListFrom(sc, sc[first[Len(first)]].next, n - (n \div 2))

RecencyList(f) == ListFrom(f.string_cache, f.string_cache_head,
                           hashmapSize(f.string_cache))

-----------------------------------------------------------------------------
(* Font metrics *)

\* the glyphs the scan of gr_ttf_getMaxFontHeight over '!' .. '~' gets a
\* box for: cached ones, and those a direct FT_Load_Glyph can load
ScannedGlyphs(f) ==
    {char_idx \in {FT_Get_Char_Index(c) : c \in 33..126} :
        char_idx \in f.glyph_cache \/ ~FT_Load_Glyph_fails(f.face, char_idx)}

\* bbox after the scan: the running MIN / MAX over the scanned glyphs,
\* started from LONG_MAX / LONG_MIN
MetricsScan(f) ==
    LET lows == {LONG_MAX} \cup {CBox(i).yMin : i \in ScannedGlyphs(f)}
        highs == {LONG_MIN} \cup {CBox(i).yMax : i \in ScannedGlyphs(f)}
    IN  [yMin |-> CHOOSE m \in lows : \A x \in lows : MIN(m, x) = m,
         yMax |-> CHOOSE m \in highs : \A x \in highs : MAX(m, x) = m]

\* metrics without the "f->size / 4" added on top (a fault C18 must notice)
ComputeMetricsNoPadding(f) ==
    LET scanned == MetricsScan(f)
        bbox == IF scanned.yMin > scanned.yMax
                THEN [yMin |-> 0, yMax |-> 0]
                ELSE scanned
    IN  [f EXCEPT !.max_height = bbox.yMax - bbox.yMin,
                  !.base = bbox.yMax]

\* the body of "if(f->max_height == -1)" in gr_ttf_getMaxFontHeight
ComputeMetrics(f) ==
    LET scanned == MetricsScan(f)
        bbox == IF scanned.yMin > scanned.yMax
                THEN [yMin |-> 0, yMax |-> 0]
                ELSE scanned
    IN  [f EXCEPT !.max_height = (bbox.yMax - bbox.yMin) + (f.size \div 4),
                  !.base = bbox.yMax + (f.size \div 4)]

\* gr_ttf_getMaxFontHeight between its lock and its unlock
HeightQuery(f) == IF f.max_height = -1 THEN ComputeMetrics(f) ELSE f

-----------------------------------------------------------------------------
(* Bounded measure *)

\* the loop of gr_ttf_maxExW from glyph i on
RECURSIVE MaxExWLoop(_, _, _, _, _, _, _)
MaxExWLoop(f, idxs, i, max_len, total_w, prev_idx, max_width) ==
    IF i > Len(idxs)
    THEN [max_len |-> max_len, glyph_cache |-> f.glyph_cache]
    ELSE LET char_idx == idxs[i]
             w1 == total_w + KernDelta(f, prev_idx, char_idx)
             g == gr_ttf_glyph_cache_get(f, char_idx)
         IN  IF w1 > max_width
             THEN [max_len |-> max_len, glyph_cache |-> f.glyph_cache]
             ELSE MaxExWLoop([f EXCEPT !.glyph_cache = g.glyph_cache], idxs,
                             i + 1, max_len + 1,
                             IF g.res THEN w1 + Advance(char_idx) ELSE w1,
                             char_idx, max_width)

\* gr_ttf_maxExW between its lock and its unlock: value returned, glyph cache
gr_ttf_maxExW(f, s, max_width) ==
    LET e == gr_ttf_string_cache_peek(f, s, max_width) IN
    IF e # NOKEY
    THEN [res |-> f.string_cache[e].rendered_len, glyph_cache |-> f.glyph_cache]
    ELSE LET m == MaxExWLoop(f, Decode(s), 1, 0, 0, 0, max_width) IN
         [res |-> IF m.max_len > 0 THEN m.max_len - 1 ELSE 0,
          glyph_cache |-> m.glyph_cache]

-----------------------------------------------------------------------------
(* Drawing *)

NoRect == [x |-> 0, y |-> 0, right |-> 0, bottom |-> 0, drawn |-> FALSE]

\* a clip that counts max_height from the draw origin, not from the top
\* of the screen (a fault C7 must notice)
TextClipRelative(e, x, y, max_height) ==
    LET clipped == max_height # -1 /\ max_height < e.surface.height
        bottom == IF clipped THEN y + max_height ELSE y + e.surface.height
    IN  IF clipped /\ max_height <= 0
        THEN [res |-> 0, rect |-> NoRect]
        ELSE [res |-> e.rendered_len,
              rect |-> [x |-> x, y |-> y, right |-> x + e.surface.width,
                        bottom |-> bottom, drawn |-> TRUE]]

\* gr_ttf_textExWH after gr_ttf_string_cache_get returned entry e:
\* the value returned and the rectangle given to gl->recti
TextClip(e, x, y, max_height) ==
    LET y_bottom == y + e.surface.height
        clipped == max_height # -1 /\ max_height < y_bottom
        bottom == IF clipped THEN max_height ELSE y_bottom
    IN  IF clipped /\ bottom <= y
        THEN [res |-> 0, rect |-> NoRect]
        ELSE [res |-> e.rendered_len,
              rect |-> [x |-> x, y |-> y, right |-> x + e.surface.width,
                        bottom |-> bottom, drawn |-> TRUE]]

-----------------------------------------------------------------------------
(* Mutexes *)

\* pthread_mutex_lock by t on a free mutex
MutexLock(t) == [owner |-> t, count |-> 1]

\* pthread_mutex_unlock by t; a thread that does not hold the mutex gets an
\* error and changes nothing
MutexUnlock(m, t) ==
    IF m.owner = t
    THEN IF m.count > 1 THEN [m EXCEPT !.count = @ - 1] ELSE FreeMutex
    ELSE m

-----------------------------------------------------------------------------
(* Registry *)

\* every <<path, size, dpi>> a caller passes to gr_ttf_loadFont
FontKeys == {<<GoodPath, 8, 1>>, <<GoodPath, 8, 2>>, <<TofuPath, 2, 1>>,
             <<TofuPath, 8, 1>>, <<MissingPath, 8, 1>>}

\* those the threads of Spec pass
SpecKeys == {<<GoodPath, 8, 1>>, <<GoodPath, 8, 2>>, <<TofuPath, 8, 1>>,
             <<MissingPath, 8, 1>>}

Handles == 1..MaxLoads

\* a comparison that forgets the dpi (a fault C4 must notice)
font_cache_equals_no_dpi(a, b) == a[2] = b[2] /\ a[1] = b[1]

gr_ttf_font_cache_equals(a, b) == a[2] = b[2] /\ a[3] = b[3] /\ a[1] = b[1]

\* hashmapGet(font_data.fonts, &k): the handle stored under an equal key
hashmapGet(fonts, k) ==
    IF \E p \in fonts : gr_ttf_font_cache_equals(p[1], k)
    THEN (CHOOSE p \in fonts : gr_ttf_font_cache_equals(p[1], k))[2]
    ELSE NULL

\* hashmapPut(font_data.fonts, key, res)
hashmapPut(fonts, key, h) ==
    {p \in fonts : ~gr_ttf_font_cache_equals(p[1], key)} \cup {<<key, h>>}

\* hashmapRemove(font_data.fonts, d->key)
hashmapRemove(fonts, key) ==
    {p \in fonts : ~gr_ttf_font_cache_equals(p[1], key)}

NoCall ==
    [op |-> "none", h |-> NULL, key |-> <<>>, s |-> <<>>, max_width |-> 0,
     x |-> 0, y |-> 0, max_height |-> 0, max_len |-> 0, total_w |-> 0,
     todo |-> {}, relock |-> "no", rendered |-> FALSE,
     beyond |-> <<>>, text_itr |-> 0, prev_idx |-> 0, char_idxs |-> <<>>,
     reads |-> 0]

-----------------------------------------------------------------------------
(* Initial state: nothing loaded, every thread outside the library *)

Init ==
    /\ font_data = [ft_library |-> FALSE, fonts_alloc |-> FALSE, fonts |-> {},
                    mutex |-> NULL]
    /\ font = [h \in Handles |-> NoFont]
    /\ nextHandle = 1
    /\ pc = [t \in Threads |-> "idle"]
    /\ call = [t \in Threads |-> NoCall]
    /\ ret = [t \in Threads |-> 0]
    /\ drawn = [t \in Threads |-> NoRect]
    /\ loads = [k \in FontKeys |-> 0]
    /\ releases = [k \in FontKeys |-> 0]
    /\ budget = 0
    /\ offered = 0
    /\ guarded = {}
    /\ evicted = {}
    /\ before = <<>>

registry == <<font_data, nextHandle, loads, releases>>

RECURSIVE Sum(_, _)
Sum(f, S) == IF S = {} THEN 0
             ELSE LET k == CHOOSE x \in S : TRUE IN f[k] + Sum(f, S \ {k})
driver == <<budget, offered, guarded, evicted, before>>

\* t reaches the return statement of the call it is in, with value v;
\* rendered tells whether the call has run gr_ttf_render_text
ReturnFrom(t, v, rendered) ==
    /\ pc' = [pc EXCEPT ![t] = "returned"]
    /\ ret' = [ret EXCEPT ![t] = v]
    /\ call' = [call EXCEPT ![t].max_len = 0, ![t].total_w = 0,
                            ![t].todo = {}, ![t].relock = "no",
                            ![t].rendered = rendered]

Return(t, v) == ReturnFrom(t, v, call[t].rendered)

\* t is back in its caller, which has taken the value returned
Leave(t) ==
    /\ pc[t] = "returned"
    /\ pc' = [pc EXCEPT ![t] = "idle"]
    /\ call' = [call EXCEPT ![t] = NoCall]
    /\ ret' = [ret EXCEPT ![t] = 0]
    /\ drawn' = [drawn EXCEPT ![t] = NoRect]
    /\ UNCHANGED <<font_data, font, nextHandle, loads, releases>>

-----------------------------------------------------------------------------
(* gr_ttf_loadFont *)

LoadLock(t, key) ==
    /\ pc[t] = "idle"
    /\ font_data.mutex = NULL
    /\ Sum(loads, FontKeys) < MaxLoads
    /\ font_data' = [font_data EXCEPT !.mutex = t]
    /\ pc' = [pc EXCEPT ![t] = "load_body"]
    /\ call' = [call EXCEPT ![t] = [NoCall EXCEPT !.op = "load", !.key = key]]
    /\ UNCHANGED <<font, nextHandle, ret, drawn, loads, releases>>

\* the handle found in the registry, or NULL
LoadLookup(key) ==
    IF font_data.fonts_alloc THEN hashmapGet(font_data.fonts, key) ELSE NULL

\* a gr_ttf_loadFont that registers the key before it opens the face, and
\* returns from a failed FT_New_Face or FT_Set_Char_Size without "goto exit"
\* (faults C15 must notice)
LoadBodyEarlyPut(t) ==
    /\ pc[t] = "load_body"
    /\ LET key == call[t].key
           res == LoadLookup(key)
       IN  IF res # NULL
           THEN /\ font' = [font EXCEPT ![res].refcount = @ + 1]
                /\ font_data' = [font_data EXCEPT !.mutex = NULL]
                /\ loads' = [loads EXCEPT ![key] = @ + 1]
                /\ UNCHANGED nextHandle
                /\ Return(t, res)
           ELSE IF FT_New_Face_fails(key[1])
                   \/ FT_Set_Char_Size_fails(key[2], key[3])
                THEN /\ font_data' =
                          [font_data EXCEPT
                             !.ft_library = TRUE,
                             !.fonts_alloc = TRUE,
                             !.fonts = hashmapPut(font_data.fonts, key, nextHandle)]
                     /\ UNCHANGED <<font, nextHandle, loads>>
                     /\ Return(t, NULL)
                ELSE /\ font' = [font EXCEPT ![nextHandle] = NewFont(key)]
                     /\ font_data' =
                          [font_data EXCEPT
                             !.ft_library = TRUE,
                             !.fonts_alloc = TRUE,
                             !.fonts = hashmapPut(font_data.fonts, key, nextHandle),
                             !.mutex = NULL]
                     /\ nextHandle' = nextHandle + 1
                     /\ loads' = [loads EXCEPT ![key] = @ + 1]
                     /\ Return(t, nextHandle)
    /\ UNCHANGED <<drawn, releases>>

LoadBody(t) ==
    /\ pc[t] = "load_body"
    /\ LET key == call[t].key
           res == LoadLookup(key)
       IN  IF res # NULL
           THEN \* ++res->refcount
                /\ font' = [font EXCEPT ![res].refcount = @ + 1]
                /\ font_data' = [font_data EXCEPT !.mutex = NULL]
                /\ loads' = [loads EXCEPT ![key] = @ + 1]
                /\ UNCHANGED nextHandle
                /\ Return(t, res)
           ELSE \E init_ok \in BOOLEAN :
                IF ~font_data.ft_library /\ ~init_ok
                THEN \* FT_Init_FreeType failed
                     /\ font_data' = [font_data EXCEPT !.mutex = NULL]
                     /\ UNCHANGED <<font, nextHandle, loads>>
                     /\ Return(t, NULL)
                ELSE IF FT_New_Face_fails(key[1])
                        \/ FT_Set_Char_Size_fails(key[2], key[3])
                THEN /\ font_data' = [font_data EXCEPT !.ft_library = TRUE,
                                                       !.mutex = NULL]
                     /\ UNCHANGED <<font, nextHandle, loads>>
                     /\ Return(t, NULL)
                ELSE /\ font' = [font EXCEPT ![nextHandle] = NewFont(key)]
                     /\ font_data' =
                          [font_data EXCEPT
                             !.ft_library = TRUE,
                             !.fonts_alloc = TRUE,
                             !.fonts = hashmapPut(font_data.fonts, key, nextHandle),
                             !.mutex = NULL]
                     /\ nextHandle' = nextHandle + 1
                     /\ loads' = [loads EXCEPT ![key] = @ + 1]
                     /\ Return(t, nextHandle)
    /\ UNCHANGED <<drawn, releases>>

-----------------------------------------------------------------------------
(* gr_ttf_freeFont *)

FreeLock(t, h) ==
    /\ pc[t] = "idle"
    /\ font[h].alive
    /\ font_data.mutex = NULL
    /\ font_data' = [font_data EXCEPT !.mutex = t]
    /\ pc' = [pc EXCEPT ![t] = "free_body"]
    /\ call' = [call EXCEPT ![t] = [NoCall EXCEPT !.op = "free", !.h = h]]
    /\ UNCHANGED <<font, nextHandle, ret, drawn, loads, releases>>

\* a release that destroys the font whatever its refcount (a fault C5 must
\* notice)
FreeBodyAlways(t) ==
    /\ pc[t] = "free_body"
    /\ LET h == call[t].h
           d == font[h]
           left == hashmapRemove(font_data.fonts, d.key)
       IN  /\ font_data' = [font_data EXCEPT !.fonts = left,
                                             !.fonts_alloc = (left # {}),
                                             !.mutex = NULL]
           /\ font' = [font EXCEPT ![h] = NoFont]
           /\ releases' = [releases EXCEPT ![d.key] = @ + 1]
    /\ Return(t, 0)
    /\ UNCHANGED <<nextHandle, drawn, loads>>

FreeBody(t) ==
    /\ pc[t] = "free_body"
    /\ LET h == call[t].h
           d == font[h]
       IN  /\ IF d.refcount - 1 = 0
              THEN LET left == hashmapRemove(font_data.fonts, d.key) IN
                   /\ font_data' = [font_data EXCEPT
                                      !.fonts = left,
                                      !.fonts_alloc = (left # {}),
                                      !.mutex = NULL]
                   /\ font' = [font EXCEPT ![h] = NoFont]
              ELSE /\ font' = [font EXCEPT ![h].refcount = @ - 1]
                   /\ font_data' = [font_data EXCEPT !.mutex = NULL]
           /\ releases' = [releases EXCEPT ![d.key] = @ + 1]
    /\ Return(t, 0)
    /\ UNCHANGED <<nextHandle, drawn, loads>>

-----------------------------------------------------------------------------
(* gr_ttf_getMaxFontHeight *)

\* t enters a call on font h and takes the font's mutex
FontLock(t, h, c) ==
    /\ pc[t] = "idle"
    /\ font[h].alive
    /\ font[h].mutex.owner = NULL
    /\ font' = [font EXCEPT ![h].mutex = MutexLock(t)]
    /\ call' = [call EXCEPT ![t] = c]
    /\ UNCHANGED <<registry, ret, drawn>>

HeightLock(t, h) ==
    /\ FontLock(t, h, [NoCall EXCEPT !.op = "height", !.h = h])
    /\ pc' = [pc EXCEPT ![t] = "height_body"]

HeightBody(t) ==
    /\ pc[t] = "height_body"
    /\ font[call[t].h].alive
    /\ LET h == call[t].h
           f == HeightQuery(font[h])
       IN  /\ font' = [font EXCEPT ![h] = [f EXCEPT !.mutex = MutexUnlock(@, t)]]
           /\ Return(t, f.max_height)
    /\ UNCHANGED <<registry, drawn>>

-----------------------------------------------------------------------------
(* gr_ttf_measureEx and gr_ttf_textExWH *)

\* the caller's code after gr_ttf_string_cache_get returned the entry of
\* key k in font f1, up to and including its unlock and return
Finish(t, h, f1, k, rendered) ==
    LET e == f1.string_cache[k]
        c == TextClip(e, call[t].x, call[t].y, call[t].max_height)
    IN  /\ font' = [font EXCEPT ![h] = [f1 EXCEPT !.mutex = MutexUnlock(@, t)]]
        /\ IF call[t].op = "measure"
           THEN /\ ReturnFrom(t, e.surface.width, rendered)
                /\ UNCHANGED drawn
           ELSE /\ ReturnFrom(t, c.res, rendered)
                /\ drawn' = [drawn EXCEPT ![t] = c.rect]

\* gr_ttf_string_cache_get as called by t under the font's mutex, then the
\* rest of the caller; on a miss with unknown metrics gr_ttf_render_text
\* goes on to call gr_ttf_getMaxFontHeight, which locks the mutex again
GetOrRender(t) ==
    LET h == call[t].h
        f == font[h]
        k == StringCacheKey(call[t].s, call[t].max_width)
    IN  IF k \in DOMAIN f.string_cache \/ f.max_height # -1
        THEN LET r == gr_ttf_string_cache_get(f, call[t].s, call[t].max_width) IN
             Finish(t, h, r.font, k, r.rendered)
        ELSE LET m == RenderMeasure(f, call[t].s, call[t].max_width) IN
             /\ font' = [font EXCEPT ![h].glyph_cache = m.glyph_cache]
             /\ call' = [call EXCEPT ![t].max_len = m.max_len,
                                     ![t].total_w = m.total_w,
                                     ![t].rendered = TRUE]
             /\ pc' = [pc EXCEPT ![t] = "relock"]
             /\ UNCHANGED <<ret, drawn>>

MeasureLock(t, h, s) ==
    /\ FontLock(t, h, [NoCall EXCEPT !.op = "measure", !.h = h, !.s = s,
                                     !.max_width = -1])
    /\ pc' = [pc EXCEPT ![t] = "measure_body"]

MeasureBody(t) ==
    /\ pc[t] = "measure_body"
    /\ font[call[t].h].alive
    /\ GetOrRender(t)
    /\ UNCHANGED registry

TextArgs(h, x, y, s, max_width, max_height) ==
    [NoCall EXCEPT !.op = "text", !.h = h, !.s = s, !.x = x, !.y = y,
                   !.max_width = max_width, !.max_height = max_height]

\* "if(max_width <= 0) return 0" after max_width -= x
TextReject(t, h, x, y, s, max_width, max_height) ==
    /\ pc[t] = "idle"
    /\ font[h].alive
    /\ max_width # -1 /\ max_width - x <= 0
    /\ call' = [call EXCEPT ![t] = TextArgs(h, x, y, s, max_width - x, max_height)]
    /\ pc' = [pc EXCEPT ![t] = "returned"]
    /\ ret' = [ret EXCEPT ![t] = 0]
    /\ drawn' = [drawn EXCEPT ![t] = NoRect]
    /\ UNCHANGED <<registry, font>>

TextLock(t, h, x, y, s, max_width, max_height) ==
    /\ max_width = -1 \/ max_width - x > 0
    /\ FontLock(t, h, TextArgs(h, x, y, s,
                               IF max_width = -1 THEN -1 ELSE max_width - x,
                               max_height))
    /\ pc' = [pc EXCEPT ![t] = "text_body"]

TextBody(t) ==
    /\ pc[t] = "text_body"
    /\ font[call[t].h].alive
    /\ GetOrRender(t)
    /\ UNCHANGED registry

-----------------------------------------------------------------------------
(* gr_ttf_render_text calling gr_ttf_getMaxFontHeight under the font's mutex *)

\* pthread_mutex_lock on a default mutex the calling thread already holds is
\* undefined: the thread blocks for ever, or the lock nests, or the call
\* returns an error that the code does not look at
RelockOutcomes == {"deadlock", "recursive", "error"}

Relock(t) ==
    /\ pc[t] = "relock"
    /\ font[call[t].h].alive
    /\ \E o \in RelockOutcomes :
         /\ pc' = [pc EXCEPT ![t] = IF o = "deadlock" THEN "deadlocked"
                                    ELSE "nested_height"]
         /\ call' = [call EXCEPT ![t].relock = o]
         /\ font' = IF o = "recursive" /\ font[call[t].h].mutex.owner = t
                    THEN [font EXCEPT ![call[t].h].mutex.count = @ + 1]
                    ELSE font
    /\ UNCHANGED <<registry, ret, drawn>>

\* the nested gr_ttf_getMaxFontHeight: metrics, then its unlock
NestedHeight(t) ==
    /\ pc[t] = "nested_height"
    /\ font[call[t].h].alive
    /\ LET h == call[t].h
           f == HeightQuery(font[h])
       IN  /\ font' = [font EXCEPT ![h] = [f EXCEPT !.mutex = MutexUnlock(@, t)]]
    /\ pc' = [pc EXCEPT ![t] = "render_resume"]
    /\ UNCHANGED <<registry, call, ret, drawn>>

\* gr_ttf_render_text from "if(font->max_height == -1)" (second test) on,
\* the insertion of gr_ttf_string_cache_get, and the rest of the caller
RenderResume(t) ==
    /\ pc[t] = "render_resume"
    /\ font[call[t].h].alive
    /\ LET h == call[t].h
           f == font[h]
           k == StringCacheKey(call[t].s, call[t].max_width)
       IN  IF f.max_height = -1
           THEN /\ font' = [font EXCEPT ![h].mutex = MutexUnlock(@, t)]
                /\ Return(t, -1)
                /\ UNCHANGED drawn
           ELSE LET f1 == StringCacheInsert(f, call[t].s, call[t].max_width,
                                            call[t].max_len, call[t].total_w)
                IN  Finish(t, h, f1, k, TRUE)
    /\ UNCHANGED registry

-----------------------------------------------------------------------------
(* gr_ttf_maxExW *)

MaxExWLock(t, h, s, max_width) ==
    /\ FontLock(t, h, [NoCall EXCEPT !.op = "maxExW", !.h = h, !.s = s,
                                     !.max_width = max_width])
    /\ pc' = [pc EXCEPT ![t] = "maxexw_body"]

\* a gr_ttf_maxExW that looks the string up with gr_ttf_string_cache_get
\* instead of gr_ttf_string_cache_peek (a fault C12 must notice)
MaxExWBodyGet(t) ==
    /\ pc[t] = "maxexw_body"
    /\ font[call[t].h].alive
    /\ font[call[t].h].max_height # -1
    /\ LET h == call[t].h
           r == gr_ttf_string_cache_get(font[h], call[t].s, call[t].max_width)
       IN  /\ font' = [font EXCEPT ![h] = [r.font EXCEPT !.mutex = MutexUnlock(@, t)]]
           /\ Return(t, r.font.string_cache[r.res].rendered_len)
    /\ UNCHANGED <<registry, drawn>>

MaxExWBody(t) ==
    /\ pc[t] = "maxexw_body"
    /\ font[call[t].h].alive
    /\ LET h == call[t].h
           r == gr_ttf_maxExW(font[h], call[t].s, call[t].max_width)
       IN  /\ font' = [font EXCEPT ![h].glyph_cache = r.glyph_cache,
                                   ![h].mutex = MutexUnlock(@, t)]
           /\ Return(t, r.res)
    /\ UNCHANGED <<registry, drawn>>

-----------------------------------------------------------------------------
(* The decoding loops of gr_ttf_render_text and gr_ttf_maxExW, one pass of  *)
(* the loop at a time, over the memory the text pointer points to           *)

\* gr_ttf_textExWH at (0, 0) without a height limit: lock, a miss in
\* gr_ttf_string_cache_get, gr_ttf_render_text up to its first loop
RenderLoopEnter(t, h, s, beyond, max_width) ==
    /\ StringCacheKey(s, max_width) \notin DOMAIN font[h].string_cache
    /\ font[h].max_height # -1
    /\ FontLock(t, h, [TextArgs(h, 0, 0, s, max_width, -1)
                          EXCEPT !.beyond = beyond, !.text_itr = 1])
    /\ pc' = [pc EXCEPT ![t] = "render_loop"]

\* one pass of the first loop of gr_ttf_render_text; a write to
\* char_idxs[max_len] with max_len >= strlen(text) lands behind the array
RenderLoopStep(t) ==
    /\ pc[t] = "render_loop"
    /\ LET c == call[t]
           h == c.h
           f == font[h]
           r == DecodeRead(CString(c.s, c.beyond), c.text_itr)
           g == gr_ttf_glyph_cache_get(f, r.char_idx)
           diff == Advance(r.char_idx) + KernDelta(f, c.prev_idx, r.char_idx)
           stop == g.res /\ c.max_width # -1 /\ c.total_w + diff > c.max_width
       IN  /\ ~r.fault
           /\ IF r.end
              THEN /\ call' = [call EXCEPT ![t].text_itr = r.itr,
                                           ![t].reads = r.reads]
                   /\ pc' = [pc EXCEPT ![t] = "render_rest"]
                   /\ UNCHANGED font
              ELSE /\ font' = [font EXCEPT ![h].glyph_cache = g.glyph_cache]
                   /\ call' = [call EXCEPT
                        ![t].text_itr = r.itr,
                        ![t].reads = r.reads,
                        ![t].char_idxs = Append(c.char_idxs, r.char_idx),
                        ![t].total_w = IF g.res /\ ~stop
                                       THEN c.total_w + diff ELSE c.total_w,
                        ![t].prev_idx = IF stop THEN c.prev_idx ELSE r.char_idx,
                        ![t].max_len = IF stop THEN c.max_len ELSE c.max_len + 1]
                   /\ pc' = [pc EXCEPT ![t] = IF stop THEN "render_rest"
                                              ELSE "render_loop"]
    /\ UNCHANGED <<registry, ret, drawn>>

\* gr_ttf_render_text after its first loop, the insertion of
\* gr_ttf_string_cache_get, and the rest of the caller
RenderLoopRest(t) ==
    /\ pc[t] = "render_rest"
    /\ LET c == call[t]
           f1 == StringCacheInsertIdxs(font[c.h], c.char_idxs, c.s,
                                       c.max_width, c.max_len, c.total_w)
       IN  Finish(t, c.h, f1, StringCacheKey(c.s, c.max_width), TRUE)
    /\ UNCHANGED registry

\* gr_ttf_maxExW: lock, a miss in gr_ttf_string_cache_peek
MaxExWLoopEnter(t, h, s, beyond, max_width) ==
    /\ gr_ttf_string_cache_peek(font[h], s, max_width) = NOKEY
    /\ FontLock(t, h, [NoCall EXCEPT !.op = "maxExW", !.h = h, !.s = s,
                                     !.max_width = max_width,
                                     !.beyond = beyond, !.text_itr = 1])
    /\ pc' = [pc EXCEPT ![t] = "maxexw_loop"]

\* one pass of the loop of gr_ttf_maxExW; when the loop ends, the unlock
\* and the return
MaxExWLoopStep(t) ==
    /\ pc[t] = "maxexw_loop"
    /\ LET c == call[t]
           h == c.h
           f == font[h]
           r == DecodeRead(CString(c.s, c.beyond), c.text_itr)
           w1 == c.total_w + KernDelta(f, c.prev_idx, r.char_idx)
           g == gr_ttf_glyph_cache_get(f, r.char_idx)
       IN  /\ ~r.fault
           /\ IF r.end \/ w1 > c.max_width
              THEN /\ font' = [font EXCEPT ![h].mutex = MutexUnlock(@, t)]
                   /\ pc' = [pc EXCEPT ![t] = "returned"]
                   /\ ret' = [ret EXCEPT
                        ![t] = IF c.max_len > 0 THEN c.max_len - 1 ELSE 0]
                   /\ call' = [call EXCEPT ![t].text_itr = r.itr,
                                           ![t].reads = r.reads]
              ELSE /\ font' = [font EXCEPT ![h].glyph_cache = g.glyph_cache]
                   /\ call' = [call EXCEPT
                        ![t].text_itr = r.itr,
                        ![t].reads = r.reads,
                        ![t].total_w = IF g.res THEN w1 + Advance(r.char_idx)
                                       ELSE w1,
                        ![t].prev_idx = r.char_idx,
                        ![t].max_len = c.max_len + 1]
                   /\ UNCHANGED <<pc, ret>>
    /\ UNCHANGED <<registry, drawn>>

\* the next pass reads a byte that is not mapped, or writes behind
\* char_idxs and the damage is noticed: the process is killed
DecodeFault(t) ==
    /\ pc[t] \in {"render_loop", "maxexw_loop"}
    /\ LET c == call[t]
           r == DecodeRead(CString(c.s, c.beyond), c.text_itr)
       IN  \/ r.fault
           \/ /\ pc[t] = "render_loop"
              /\ ~r.end
              /\ c.max_len >= Len(c.s)
    /\ pc' = [pc EXCEPT ![t] = "crashed"]
    /\ UNCHANGED <<registry, font, call, ret, drawn>>

-----------------------------------------------------------------------------
(* A call still running on a font that gr_ttf_freeFont has destroyed *)

InFontCall(t) ==
    pc[t] \in {"height_body", "measure_body", "text_body", "maxexw_body",
               "relock", "nested_height", "render_resume"}

\* the thread reads freed memory: it crashes, or returns whatever it found
UseAfterFree(t) ==
    /\ InFontCall(t)
    /\ ~font[call[t].h].alive
    /\ \/ /\ pc' = [pc EXCEPT ![t] = "crashed"]
          /\ UNCHANGED <<call, ret>>
       \/ \E v \in {-1, 0} : Return(t, v)
    /\ UNCHANGED <<registry, font, drawn>>

-----------------------------------------------------------------------------
(* gr_ttf_dump_stats *)

DumpLock(t) ==
    /\ pc[t] = "idle"
    /\ font_data.mutex = NULL
    /\ font_data' = [font_data EXCEPT !.mutex = t]
    /\ pc' = [pc EXCEPT ![t] = "dump_fonts"]
    /\ call' = [call EXCEPT ![t] =
                  [NoCall EXCEPT !.op = "dump",
                                 !.todo = IF font_data.fonts_alloc
                                          THEN {p[2] : p \in font_data.fonts}
                                          ELSE {}]]
    /\ UNCHANGED <<font, nextHandle, ret, drawn, loads, releases>>

\* gr_ttf_dump_stats_font for the next font of hashmapForEach: its lock
DumpFontLock(t) ==
    /\ pc[t] = "dump_fonts"
    /\ \E h \in call[t].todo :
         /\ font[h].mutex.owner = NULL
         /\ font' = [font EXCEPT ![h].mutex = MutexLock(t)]
         /\ call' = [call EXCEPT ![t].h = h]
    /\ pc' = [pc EXCEPT ![t] = "dump_font_body"]
    /\ UNCHANGED <<registry, ret, drawn>>

\* a gr_ttf_dump_stats_font that returns without its unlock (a fault C8
\* must notice)
DumpFontBodyNoUnlock(t) ==
    /\ pc[t] = "dump_font_body"
    /\ call' = [call EXCEPT ![t].todo = @ \ {call[t].h}, ![t].h = NULL]
    /\ pc' = [pc EXCEPT ![t] = "dump_fonts"]
    /\ UNCHANGED <<registry, font, ret, drawn>>

\* gr_ttf_dump_stats_font: the printf, then its unlock
DumpFontBody(t) ==
    /\ pc[t] = "dump_font_body"
    /\ font' = [font EXCEPT ![call[t].h].mutex = MutexUnlock(@, t)]
    /\ call' = [call EXCEPT ![t].todo = @ \ {call[t].h}, ![t].h = NULL]
    /\ pc' = [pc EXCEPT ![t] = "dump_fonts"]
    /\ UNCHANGED <<registry, ret, drawn>>

DumpUnlock(t) ==
    /\ pc[t] = "dump_fonts"
    /\ call[t].todo = {}
    /\ font_data' = [font_data EXCEPT !.mutex = NULL]
    /\ Return(t, 0)
    /\ UNCHANGED <<font, nextHandle, drawn, loads, releases>>

-----------------------------------------------------------------------------
(* Spec: threads calling every entry point, in any interleaving *)

SpecTexts == {<<65>>}
SpecWidths == {2}

Next ==
    \/ \E t \in Threads, key \in SpecKeys : LoadLock(t, key) /\ UNCHANGED driver
    \/ \E t \in Threads : LoadBody(t) /\ UNCHANGED driver
    \/ \E t \in Threads, h \in Handles : FreeLock(t, h) /\ UNCHANGED driver
    \/ \E t \in Threads : FreeBody(t) /\ UNCHANGED driver
    \/ \E t \in Threads, h \in Handles : HeightLock(t, h) /\ UNCHANGED driver
    \/ \E t \in Threads : HeightBody(t) /\ UNCHANGED driver
    \/ \E t \in Threads, h \in Handles, s \in SpecTexts :
         MeasureLock(t, h, s) /\ UNCHANGED driver
    \/ \E t \in Threads : MeasureBody(t) /\ UNCHANGED driver
    \/ \E t \in Threads, h \in Handles, s \in SpecTexts, w \in SpecWidths :
         MaxExWLock(t, h, s, w) /\ UNCHANGED driver
    \/ \E t \in Threads : MaxExWBody(t) /\ UNCHANGED driver
    \/ \E t \in Threads, h \in Handles, s \in SpecTexts, w \in SpecWidths :
         TextReject(t, h, w, 0, s, w, -1) /\ UNCHANGED driver
    \/ \E t \in Threads, h \in Handles, s \in SpecTexts :
         TextLock(t, h, 0, 0, s, -1, -1) /\ UNCHANGED driver
    \/ \E t \in Threads : TextBody(t) /\ UNCHANGED driver
    \/ \E t \in Threads : Relock(t) /\ UNCHANGED driver
    \/ \E t \in Threads : NestedHeight(t) /\ UNCHANGED driver
    \/ \E t \in Threads : RenderResume(t) /\ UNCHANGED driver
    \/ \E t \in Threads : UseAfterFree(t) /\ UNCHANGED driver
    \/ \E t \in Threads : DumpLock(t) /\ UNCHANGED driver
    \/ \E t \in Threads : DumpFontLock(t) /\ UNCHANGED driver
    \/ \E t \in Threads : DumpFontBody(t) /\ UNCHANGED driver
    \/ \E t \in Threads : DumpUnlock(t) /\ UNCHANGED driver
    \/ \E t \in Threads : Leave(t) /\ UNCHANGED driver

Spec == Init /\ [][Next]_vars

-----------------------------------------------------------------------------
(* The state after gr_ttf_loadFont(key) and gr_ttf_getMaxFontHeight on the  *)
(* handle it returned: one font, handle 1, metrics known, caches empty      *)

Loaded(key) ==
    /\ font_data = [ft_library |-> TRUE, fonts_alloc |-> TRUE,
                    fonts |-> hashmapPut({}, key, 1), mutex |-> NULL]
    /\ font = [h \in Handles |->
                 IF h = 1 THEN HeightQuery(NewFont(key)) ELSE NoFont]
    /\ nextHandle = 2
    /\ pc = [t \in Threads |-> "idle"]
    /\ call = [t \in Threads |-> NoCall]
    /\ ret = [t \in Threads |-> 0]
    /\ drawn = [t \in Threads |-> NoRect]
    /\ loads = [k \in FontKeys |-> IF k = key THEN 1 ELSE 0]
    /\ releases = [k \in FontKeys |-> 0]
    /\ budget = 0
    /\ offered = 0
    /\ guarded = {}
    /\ evicted = {}
    /\ before = <<>>

-----------------------------------------------------------------------------
(* SpecText: one thread measuring and drawing short strings with one font  *)

\* "", "A", "AV" (a kerned pair), "BA" (B cannot be loaded), U+4E2D "A"
TextTexts == {<<>>, <<65>>, <<65, 86>>, <<66, 65>>, <<228, 184, 173, 65>>}
TextWidths == {-1, 0, 1, 2, 3, 4, 5, 6}
TextXs == {0, 3}
TextYs == {0, 2}
TextMaxWidths == {-1, 3}
TextMaxHeights == {-1, 0, 2, 5, 10}

InitText == \E key \in {<<GoodPath, 8, 1>>, <<TofuPath, 2, 1>>} : Loaded(key)

NextText ==
    \/ /\ budget < MaxCalls
       /\ \E s \in TextTexts : MeasureLock(1, 1, s)
       /\ budget' = budget + 1
       /\ UNCHANGED <<offered, guarded, evicted, before>>
    \/ MeasureBody(1) /\ UNCHANGED driver
    \/ /\ \E s \in TextTexts, w \in TextWidths : MaxExWLock(1, 1, s, w)
       /\ UNCHANGED driver
    \/ MaxExWBody(1) /\ UNCHANGED driver
    \/ /\ \E s \in TextTexts, x \in TextXs, y \in TextYs, w \in TextMaxWidths,
            mh \in TextMaxHeights : TextReject(1, 1, x, y, s, w, mh)
       /\ UNCHANGED driver
    \/ /\ budget < MaxCalls
       /\ \E s \in TextTexts, x \in TextXs, y \in TextYs, w \in TextMaxWidths,
            mh \in TextMaxHeights : TextLock(1, 1, x, y, s, w, mh)
       /\ budget' = budget + 1
       /\ UNCHANGED <<offered, guarded, evicted, before>>
    \/ TextBody(1) /\ UNCHANGED driver
    \/ Leave(1) /\ UNCHANGED driver

SpecText == InitText /\ [][NextText]_vars

-----------------------------------------------------------------------------
(* SpecCache: one thread filling one font's string cache with distinct     *)
(* keys, and hitting the head, the second or the tail entry now and then   *)

CacheTexts == <<(<<65>>), (<<65, 86>>)>>

\* the i-th distinct key the driver offers, i = 0, 1, ...
KeyOf(i) ==
    StringCacheKey(CacheTexts[(i % 2) + 1], IF i < 2 THEN -1 ELSE i \div 2)

\* the keys the driver may request next: the next new key, and, while it
\* has hits left and the cache is nearly empty or nearly full, the head,
\* the second and the tail entry
CacheOffer(f) ==
    (IF offered < MaxKeys THEN {KeyOf(offered)} ELSE {})
    \cup
    (IF /\ budget < MaxHits
        /\ f.string_cache_head # NOKEY
        /\ \/ hashmapSize(f.string_cache) <= EarlyLen
           \/ hashmapSize(f.string_cache) >= STRING_CACHE_MAX_ENTRIES - 1
     THEN {f.string_cache_head, f.string_cache_tail}
          \cup ({f.string_cache[f.string_cache_head].next} \ {NOKEY})
     ELSE {})

\* the driver's notes when it requests key k
CacheAsk(k) ==
    LET f == font[1]
        hit == k \in DOMAIN f.string_cache
    IN  /\ budget' = IF hit THEN budget + 1 ELSE budget
        /\ offered' = IF hit THEN offered ELSE offered + 1
        /\ guarded' = LET kept == IF evicted # {} THEN {} ELSE guarded
                       IN  IF hit /\ hashmapSize(f.string_cache)
                                       < STRING_CACHE_MAX_ENTRIES
                           THEN kept \cup {k} ELSE kept
        /\ UNCHANGED <<evicted, before>>

\* the driver's notes when the call has run
CacheSee ==
    /\ evicted' = IF hashmapSize(font'[1].string_cache)
                      >= hashmapSize(font[1].string_cache)
                   THEN {}
                   ELSE DOMAIN font[1].string_cache
                        \ DOMAIN font'[1].string_cache
    /\ before' = IF evicted' # {} THEN RecencyList(font[1]) ELSE <<>>
    /\ UNCHANGED <<budget, offered, guarded>>

InitCache == Loaded(<<GoodPath, 8, 1>>)

NextCache ==
    \/ \E k \in CacheOffer(font[1]) :
         /\ k[2] = -1
         /\ MeasureLock(1, 1, k[1])
         /\ CacheAsk(k)
    \/ MeasureBody(1) /\ CacheSee
    \/ \E k \in CacheOffer(font[1]) :
         /\ k[2] # -1
         /\ TextLock(1, 1, 0, 0, k[1], k[2], -1)
         /\ CacheAsk(k)
    \/ TextBody(1) /\ CacheSee
    \/ Leave(1) /\ UNCHANGED driver

SpecCache == InitCache /\ [][NextCache]_vars

-----------------------------------------------------------------------------
(* SpecDecode: one thread rendering and measuring strings, some of them     *)
(* ending inside a three-byte sequence, with any bytes behind the string    *)

\* "", "A", "AV", U+4E2D, "A" 0xE4, 0xE4, 0xE4 0xB8
DecodeTexts == {<<>>, <<65>>, <<65, 86>>, <<228, 184, 173>>, <<65, 228>>,
                <<228>>, <<228, 184>>}
DecodeBytes == {0, 65, 228}
DecodeBeyonds == [1..MaxBeyond -> DecodeBytes]
DecodeWidths == {-1, 3}

InitDecode == Loaded(<<GoodPath, 8, 1>>)

NextDecode ==
    \/ /\ budget < MaxCalls
       /\ \E s \in DecodeTexts, b \in DecodeBeyonds, w \in DecodeWidths :
            RenderLoopEnter(1, 1, s, b, w)
       /\ budget' = budget + 1
       /\ UNCHANGED <<offered, guarded, evicted, before>>
    \/ RenderLoopStep(1) /\ UNCHANGED driver
    \/ RenderLoopRest(1) /\ UNCHANGED driver
    \/ /\ budget < MaxCalls
       /\ \E s \in DecodeTexts, b \in DecodeBeyonds, w \in DecodeWidths :
            MaxExWLoopEnter(1, 1, s, b, w)
       /\ budget' = budget + 1
       /\ UNCHANGED <<offered, guarded, evicted, before>>
    \/ MaxExWLoopStep(1) /\ UNCHANGED driver
    \/ DecodeFault(1) /\ UNCHANGED driver
    \/ Leave(1) /\ UNCHANGED driver

SpecDecode == InitDecode /\ [][NextDecode]_vars

-----------------------------------------------------------------------------
(* Properties *)

\* the handles the registry holds under exactly this key
HandlesOf(key) == {p[2] : p \in {q \in font_data.fonts : q[1] = key}}

\* t holds the mutex of font h
HoldsFont(t, h) == font[h].mutex.owner = t

\* t has come back from a call of op and not yet left it
Returned(t, op) == pc[t] = "returned" /\ call[t].op = op

\* C1: every measure, render and height call on a live handle returns; in
\* particular no call path tries to lock the font's mutex while the same
\* thread already holds it (so no thread ever waits for itself)
C1_NoSelfRelock ==
    \A t \in Threads :
        /\ pc[t] = "relock" => ~HoldsFont(t, call[t].h)
        /\ pc[t] # "deadlocked"

\* C4: the registry holds at most one handle per <<path, size, dpi>>, the
\* registered handles are exactly the live fonts, and the refcount of a key
\* (0 when it is not registered) is its successful loads minus its releases
C4_OneHandlePerKey ==
    /\ \A key \in FontKeys :
         /\ Cardinality(HandlesOf(key)) <= 1
         /\ \A h \in HandlesOf(key) :
              /\ font[h].alive
              /\ font[h].key = key
              /\ font[h].refcount = loads[key] - releases[key]
         /\ HandlesOf(key) = {} => loads[key] - releases[key] = 0
    /\ \A h \in Handles :
         font[h].alive => h \in HandlesOf(font[h].key)

\* C4 witness: a second load of a registered key has returned the handle of
\* the first, whose refcount is now 2
C4_SecondLoadShares ==
    \E t \in Threads :
        /\ Returned(t, "load")
        /\ ret[t] # NULL
        /\ loads[call[t].key] = 2
        /\ releases[call[t].key] = 0
        /\ HandlesOf(call[t].key) = {ret[t]}
        /\ font[ret[t]].refcount = 2

\* C5: a font is destroyed by exactly the release that takes its refcount
\* from 1 to 0, and is then out of the registry with face and caches gone;
\* a font that comes to life is registered, has refcount 1, empty caches
\* and metrics -1
C5_DestroyedAtZero ==
    [][\A h \in Handles :
         /\ (font[h].alive /\ ~font'[h].alive)
              <=> \E t \in Threads :
                    /\ pc[t] = "free_body" /\ pc'[t] = "returned"
                    /\ call[t].h = h
                    /\ font[h].refcount = 1
         /\ (font[h].alive /\ ~font'[h].alive)
              => /\ font'[h] = NoFont
                 /\ \A p \in font_data'.fonts : p[2] # h
         /\ (font[h].alive /\ font'[h].alive)
              => font'[h].refcount >= 1
         /\ (~font[h].alive /\ font'[h].alive)
              => /\ <<font'[h].key, h>> \in font_data'.fonts
                 /\ font'[h].refcount = 1
                 /\ font'[h].glyph_cache = {}
                 /\ DOMAIN font'[h].string_cache = {}
                 /\ font'[h].string_cache_head = NOKEY
                 /\ font'[h].string_cache_tail = NOKEY
                 /\ font'[h].max_height = -1
                 /\ font'[h].base = -1]_vars

\* C5 witness: a key was loaded, used, released and loaded again: handle 1
\* is destroyed, handle 2 is the fresh font of the same key
C5_FreshAfterRelease ==
    \E key \in FontKeys :
        /\ loads[key] = 2 /\ releases[key] = 1
        /\ ~font[1].alive
        /\ HandlesOf(key) = {2}
        /\ font[2].refcount = 1
        /\ font[2].max_height = -1

\* C8 as stated: no thread holds the registry mutex while it holds the
\* mutex of a font
C8_RegistryNeverWithFont ==
    \A t \in Threads, h \in Handles :
        ~(font_data.mutex = t /\ HoldsFont(t, h))

\* C8: a thread holds the registry mutex together with a font's mutex only
\* inside gr_ttf_dump_stats_font, which gr_ttf_dump_stats calls with the
\* registry mutex held (registry first, then the font); load, release,
\* measure, render and height query never hold both
C8_BothOnlyInDump ==
    \A t \in Threads, h \in Handles :
        (font_data.mutex = t /\ HoldsFont(t, h))
            => /\ call[t].op = "dump"
               /\ pc[t] = "dump_font_body"
               /\ call[t].h = h

\* C8 witness: a thread inside gr_ttf_dump_stats_font holds both mutexes
C8_DumpHoldsBoth ==
    \E t \in Threads, h \in Handles :
        /\ pc[t] = "dump_font_body"
        /\ font_data.mutex = t
        /\ HoldsFont(t, h)
        /\ font[h].alive

\* the caches, the recency list and the metrics of a font
UnderMutex(f) == <<f.glyph_cache, f.string_cache, f.string_cache_head,
                f.string_cache_tail, f.max_height, f.base>>

\* C9: whenever the caches, the recency list or the metrics of a live font
\* change or are freed, the thread taking that step holds the font's mutex
C9_MutationUnderLock ==
    [][\A h \in Handles :
         (font[h].alive /\ UnderMutex(font'[h]) # UnderMutex(font[h]))
             => \E t \in Threads : pc'[t] # pc[t] /\ HoldsFont(t, h)]_vars

\* C9, its consequence: no thread is inside a call on a font at the step
\* that frees the font's caches
C9_NoFreeWhileInUse ==
    [][\A h \in Handles :
         (font[h].alive /\ ~font'[h].alive)
             => \A t \in Threads : ~(InFontCall(t) /\ call[t].h = h)]_vars

\* the stored width of glyph char_idx of f: its advance if it can be loaded
GlyphWidth(f, char_idx) ==
    IF gr_ttf_glyph_cache_get(f, char_idx).res THEN Advance(char_idx) ELSE 0

\* cumulative advance, with kerning, of the first n glyphs of idxs
RECURSIVE PrefixWidth(_, _, _)
PrefixWidth(f, idxs, n) ==
    IF n = 0 THEN 0
    ELSE PrefixWidth(f, idxs, n - 1)
         + KernDelta(f, IF n = 1 THEN 0 ELSE idxs[n - 1], idxs[n])
         + GlyphWidth(f, idxs[n])

\* C6: gr_ttf_maxExW(s, font, W), W >= 0, returns a count n of glyphs whose
\* cumulative advance is <= W, and either s has exactly n glyphs or the
\* first n + 1 glyphs exceed W
C6_BoundedMeasureFits ==
    (Returned(1, "maxExW") /\ call[1].max_width >= 0)
        => LET f == font[1]
               idxs == Decode(call[1].s)
               n == ret[1]
               W == call[1].max_width
           IN  /\ n \in 0..Len(idxs)
               /\ PrefixWidth(f, idxs, n) <= W
               /\ n = Len(idxs) \/ PrefixWidth(f, idxs, n + 1) > W

\* a gr_ttf_textExWH call that got as far as clipping has returned
TextDone == /\ Returned(1, "text")
            /\ call[1].max_width = -1 \/ call[1].max_width > 0
            /\ ret[1] # -1

\* rows of the surface the last render put on the screen
RowsDrawn == IF drawn[1].drawn THEN drawn[1].bottom - drawn[1].y ELSE 0

\* the entry the last render used
TextEntry ==
    font[1].string_cache[StringCacheKey(call[1].s, call[1].max_width)]

\* C7 as stated: a max_height smaller than the surface height (and above
\* the draw origin y) draws exactly max_height rows, for every y
C7_MaxHeightRows ==
    (/\ TextDone
     /\ call[1].max_height # -1
     /\ call[1].max_height < TextEntry.surface.height
     /\ call[1].max_height > call[1].y)
        => RowsDrawn = call[1].max_height

\* C7: max_height is the screen row at which drawing stops.  With a surface
\* of H rows drawn at y, a max_height other than -1 and below y + H clips:
\* if max_height <= y nothing is drawn and 0 is returned, else the top
\* max_height - y rows are drawn; without clipping all H rows are drawn
C7_ClipAtScreenRow ==
    TextDone
        => LET H == TextEntry.surface.height
               y == call[1].y
               mh == call[1].max_height
               clipped == mh # -1 /\ mh < y + H
           IN  /\ (clipped /\ mh <= y)
                    => (ret[1] = 0 /\ ~drawn[1].drawn)
               /\ (clipped /\ mh > y)
                    => /\ drawn[1].drawn
                       /\ drawn[1].y = y
                       /\ RowsDrawn = mh - y
                       /\ ret[1] = TextEntry.rendered_len
               /\ ~clipped
                    => /\ drawn[1].drawn
                       /\ drawn[1].y = y
                       /\ RowsDrawn = H
                       /\ ret[1] = TextEntry.rendered_len

\* C7 witness: a surface of 8 rows drawn at y = 2 with max_height = 5 shows
\* 3 rows
C7_ClippedBelowOrigin ==
    /\ TextDone
    /\ call[1].y = 2 /\ call[1].max_height = 5
    /\ TextEntry.surface.height = 8
    /\ RowsDrawn = 3

\* C2: the string cache of a font never holds more than
\* STRING_CACHE_MAX_ENTRIES entries
C2_AtMostMaxEntries ==
    hashmapSize(font[1].string_cache) <= STRING_CACHE_MAX_ENTRIES

\* C3: once STRING_CACHE_MAX_ENTRIES + 1 distinct keys have been inserted
\* into an empty cache, with no hit in between, one batch has removed
\* STRING_CACHE_TRUNCATE_ENTRIES of them
C3_OneBatchAfterMaxPlusOne ==
    (/\ pc[1] = "returned"
     /\ offered = STRING_CACHE_MAX_ENTRIES + 1
     /\ budget = 0)
        => hashmapSize(font[1].string_cache)
             = (STRING_CACHE_MAX_ENTRIES + 1) - STRING_CACHE_TRUNCATE_ENTRIES

\* C10 as stated: an entry hit below the threshold is not removed by the
\* next truncation batch
C10_HitSurvivesNextBatch == guarded \cap evicted = {}

\* the key of the call thread 1 is in
CallKey == StringCacheKey(call[1].s, call[1].max_width)

\* the i-th entry of the list l once key k, which is in l, has been taken
\* out of it
Without(l, k, i) ==
    LET at == CHOOSE j \in 1..Len(l) : l[j] = k
    IN  IF i < at THEN l[i] ELSE l[i + 1]

\* C10: after gr_ttf_string_cache_get the requested entry is the tail of
\* the recency list; a truncation batch removes exactly the first
\* STRING_CACHE_TRUNCATE_ENTRIES entries of the list as it is after that
\* move, so an entry hit earlier survives the batch exactly if at least
\* STRING_CACHE_TRUNCATE_ENTRIES entries are older than it at that time
C10_HitMovesToTail ==
    (pc[1] = "returned" /\ ret[1] # -1)
        => /\ font[1].string_cache_tail = CallKey
           /\ font[1].string_cache[CallKey].next = NOKEY
           /\ evicted # {}
                => LET oldest == {Without(before, CallKey, i) :
                                     i \in 1..STRING_CACHE_TRUNCATE_ENTRIES}
                   IN  /\ evicted = oldest
                       /\ \A g \in guarded \ {CallKey} :
                            g \in DOMAIN font[1].string_cache
                              <=> g \notin oldest

\* C10 witness: a batch has run and an entry hit below the threshold before
\* it, then among the oldest, is still cached
C10_GuardedSurvived ==
    /\ pc[1] = "returned"
    /\ evicted # {}
    /\ \E g \in guarded \ {CallKey} :
         /\ g \in DOMAIN font[1].string_cache
         /\ g \notin evicted

\* C11: gr_ttf_maxExW(s, font, -1) accounts for every glyph of s, as
\* gr_ttf_measureEx(s, font) does, whether or not (s, -1) is cached
C11_UnboundedCountsAll ==
    (Returned(1, "maxExW") /\ call[1].max_width = -1)
        => ret[1] = Len(Decode(call[1].s))

\* the string cache of a font with its recency list
StringCacheOf(f) == <<f.string_cache, f.string_cache_head, f.string_cache_tail>>

\* C12: no step of gr_ttf_maxExW changes the string cache, the recency
\* order or the head and tail of the list, on a peek hit or a peek miss
C12_PeekLeavesCache ==
    [][\A t \in Threads :
         (pc'[t] # pc[t] /\ (call'[t].op = "maxExW" \/ call[t].op = "maxExW"))
             => \A h \in Handles :
                  StringCacheOf(font'[h]) = StringCacheOf(font[h])]_vars

\* C12 witness: gr_ttf_maxExW has returned from a peek hit on the entry at
\* the head of a recency list of two entries
C12_PeekHitOnHead ==
    /\ Returned(1, "maxExW")
    /\ hashmapSize(font[1].string_cache) = 2
    /\ font[1].string_cache_head = StringCacheKey(call[1].s, call[1].max_width)
    /\ font[1].string_cache_tail # font[1].string_cache_head
    /\ ret[1] = font[1].string_cache[font[1].string_cache_head].rendered_len

\* what gr_ttf_string_cache_get hands back for key k of font f
EntryOf(f, k) == <<k, f.string_cache[k].rendered_len, f.string_cache[k].surface>>

\* C13: a gr_ttf_string_cache_get for a key that is in the cache returns
\* the entry that is there, unchanged, and does not call
\* gr_ttf_render_text: the shaper runs once per key while the key is cached
C13_HitDoesNotRender ==
    [][(/\ pc[1] \in {"measure_body", "text_body"}
        /\ CallKey \in DOMAIN font[1].string_cache)
           => /\ pc'[1] = "returned"
              /\ ~call'[1].rendered
              /\ CallKey \in DOMAIN font'[1].string_cache
              /\ EntryOf(font'[1], CallKey) = EntryOf(font[1], CallKey)]_vars

\* C13 witness: a request for a key that is cached has returned without
\* rendering
C13_SecondCallHit ==
    /\ pc[1] = "returned"
    /\ call[1].op \in {"measure", "text"}
    /\ ~call[1].rendered
    /\ budget >= 1
    /\ CallKey \in DOMAIN font[1].string_cache

\* every glyph index FT_Get_Char_Index gives
GlyphIndices == {FT_Get_Char_Index(c) : c \in 0..65535}

\* C14: the glyph cache of a live font only grows; it holds no glyph that
\* cannot be loaded; a request for a cached glyph returns its entry without
\* FT_Load_Glyph and leaves the cache as it is; a request for any other
\* glyph calls FT_Load_Glyph, and caches the glyph exactly if that succeeds
C14_GlyphCacheKeeps ==
    [][\A h \in Handles :
         font[h].alive =>
           /\ font'[h].alive => font[h].glyph_cache \subseteq font'[h].glyph_cache
           /\ \A idx \in font[h].glyph_cache :
                ~FT_Load_Glyph_fails(font[h].face, idx)
           /\ \A idx \in GlyphIndices :
                LET g == gr_ttf_glyph_cache_get(font[h], idx) IN
                IF idx \in font[h].glyph_cache
                THEN g.res /\ ~g.loaded /\ g.glyph_cache = font[h].glyph_cache
                ELSE /\ g.loaded
                     /\ g.res = ~FT_Load_Glyph_fails(font[h].face, idx)
                     /\ g.glyph_cache = font[h].glyph_cache
                                        \cup (IF g.res THEN {idx} ELSE {})]_vars

\* C14 witness: after a string with glyphs 4 and 1 a string with glyph 3,
\* which cannot be loaded, and glyph 1 has been rendered: 1 and 4 are
\* cached, 3 is not
C14_FailedGlyphNotCached ==
    /\ Returned(1, "text")
    /\ budget = 2
    /\ Decode(call[1].s) = <<3, 1>>
    /\ {1, 4} \subseteq font[1].glyph_cache
    /\ 3 \notin font[1].glyph_cache

\* C15: a gr_ttf_loadFont that returns NULL leaves the registry map, every
\* font (its refcount included) and the handle counter as they were, and
\* has released the registry mutex
C15_FailedLoadChangesNothing ==
    [][\A t \in Threads :
         (pc[t] = "load_body" /\ pc'[t] = "returned" /\ ret'[t] = NULL)
             => /\ font_data'.fonts = font_data.fonts
                /\ font_data'.fonts_alloc = font_data.fonts_alloc
                /\ font_data'.mutex = NULL
                /\ font' = font
                /\ nextHandle' = nextHandle
                /\ loads' = loads]_vars

\* C15 witness: a load of a file that cannot be opened has returned NULL
\* while another font is registered
C15_FailedLoadBesideFont ==
    \E t \in Threads :
        /\ Returned(t, "load")
        /\ ret[t] = NULL
        /\ FT_New_Face_fails(call[t].key[1])
        /\ font_data.fonts # {}
        /\ font_data.mutex = NULL

\* C16: a hit in gr_ttf_string_cache_get with STRING_CACHE_MAX_ENTRIES or
\* more entries in the cache removes STRING_CACHE_TRUNCATE_ENTRIES entries
\* in that call, the oldest of the recency list once the hit entry has
\* moved to its tail, also when the hit entry was the tail already
C16_HitAtLimitEvicts ==
    [][(/\ pc[1] \in {"measure_body", "text_body"}
        /\ CallKey \in DOMAIN font[1].string_cache
        /\ hashmapSize(font[1].string_cache) >= STRING_CACHE_MAX_ENTRIES)
           => /\ hashmapSize(font'[1].string_cache)
                   = hashmapSize(font[1].string_cache)
                     - STRING_CACHE_TRUNCATE_ENTRIES
              /\ DOMAIN font[1].string_cache \ DOMAIN font'[1].string_cache
                   = {Without(RecencyList(font[1]), CallKey, i) :
                        i \in 1..STRING_CACHE_TRUNCATE_ENTRIES}]_vars

\* glyph char_idx of f can be loaded
Loads(f, char_idx) == ~FT_Load_Glyph_fails(f.face, char_idx)

\* what glyph n of idxs adds to the width of a rendered string: its advance
\* and the kerning against the glyph before it, if it can be loaded
ShapedStep(f, idxs, n) ==
    IF Loads(f, idxs[n])
    THEN Advance(idxs[n]) + KernDelta(f, IF n = 1 THEN 0 ELSE idxs[n - 1], idxs[n])
    ELSE 0

\* the accumulated width of the first n glyphs of idxs
RECURSIVE ShapedWidth(_, _, _)
ShapedWidth(f, idxs, n) ==
    IF n = 0 THEN 0 ELSE ShapedWidth(f, idxs, n - 1) + ShapedStep(f, idxs, n)

\* the first glyph of idxs that would push the accumulated width above W,
\* or Len(idxs) + 1 if there is none
FirstOver(f, idxs, W) ==
    LET over == {n \in 1..Len(idxs) :
                   /\ Loads(f, idxs[n])
                   /\ ShapedWidth(f, idxs, n) > W}
    IN  IF over = {} THEN Len(idxs) + 1
        ELSE CHOOSE n \in over : \A m \in over : n <= m

\* C17: the entry rendered for (text, W), W > 0, holds the glyphs before
\* the first one that would push the accumulated width above W (all of them
\* if there is none), its surface is as wide as those glyphs and not wider
\* than W; for W = -1 it holds every glyph of the text
C17_ShaperStopsBeforeOverflow ==
    \A k \in DOMAIN font[1].string_cache :
        LET f == font[1]
            e == f.string_cache[k]
            idxs == Decode(k[1])
            W == k[2]
        IN  /\ e.rendered_len = IF W = -1 THEN Len(idxs)
                                ELSE FirstOver(f, idxs, W) - 1
            /\ e.surface.width = ShapedWidth(f, idxs, e.rendered_len)
            /\ W # -1 => e.surface.width <= W

\* C17 witness: "AV" rendered with max_width 3 holds one glyph, 2 wide
C17_StoppedAtSecondGlyph ==
    /\ font[1].face = GoodPath
    /\ StringCacheKey(<<65, 86>>, 3) \in DOMAIN font[1].string_cache
    /\ font[1].string_cache[StringCacheKey(<<65, 86>>, 3)].rendered_len = 1
    /\ font[1].string_cache[StringCacheKey(<<65, 86>>, 3)].surface.width = 2

\* C18 as stated: a font none of whose glyphs '!' .. '~' can be loaded has,
\* once its metrics are computed, max_height = 0 and base = 0
C18_NoGlyphZeroMetrics ==
    \A h \in Handles :
        (font[h].alive /\ font[h].max_height # -1 /\ ScannedGlyphs(font[h]) = {})
            => (font[h].max_height = 0 /\ font[h].base = 0)

\* C18: metrics are -1 until gr_ttf_getMaxFontHeight computes them and are
\* never -1 and never change afterwards; computed for a font none of whose
\* glyphs '!' .. '~' can be loaded they are both size / 4 (the padding the
\* code adds), which is 0 only for a size below 4
C18_MetricsOnceWithPadding ==
    [][/\ \A h \in Handles :
            (font[h].alive /\ font'[h].alive)
                => /\ font[h].max_height # -1
                       => /\ font'[h].max_height = font[h].max_height
                          /\ font'[h].base = font[h].base
                   /\ (font[h].max_height = -1 /\ font'[h].max_height # -1)
                       => /\ font'[h].max_height >= font[h].size \div 4
                          /\ ScannedGlyphs(font[h]) = {}
                               => /\ font'[h].max_height = font[h].size \div 4
                                  /\ font'[h].base = font[h].size \div 4
                   /\ (font[h].max_height = -1 /\ font'[h].max_height = -1)
                       => font'[h].base = -1
       /\ \A t \in Threads :
            (/\ pc[t] \in {"height_body", "nested_height"}
             /\ pc'[t] # pc[t]
             /\ font[call[t].h].alive)
                => font'[call[t].h].max_height # -1]_vars

\* C18 witness: the metrics of tofu.ttf at size 8 have been computed: both
\* are 2
C18_TofuPadded ==
    \E h \in Handles :
        /\ font[h].alive
        /\ font[h].key = <<TofuPath, 8, 1>>
        /\ ScannedGlyphs(font[h]) = {}
        /\ font[h].max_height = 2
        /\ font[h].base = 2

\* C19: the recency list of a font, followed from its head, holds every
\* key of the hashmap exactly once and nothing else; the head has no prev,
\* the tail is the last entry and has no next, each entry is the prev of
\* its next; head and tail are both NULL exactly if the cache is empty
C19_ListMatchesMap ==
    LET f == font[1]
        sc == f.string_cache
        l == RecencyList(f)
        n == hashmapSize(sc)
    IN  /\ Len(l) = n
        /\ {l[i] : i \in 1..Len(l)} = DOMAIN sc
        /\ (n = 0) <=> (f.string_cache_head = NOKEY)
        /\ (n = 0) <=> (f.string_cache_tail = NOKEY)
        /\ n > 0 => /\ l[1] = f.string_cache_head
                    /\ sc[l[1]].prev = NOKEY
                    /\ l[n] = f.string_cache_tail
                    /\ sc[l[n]].next = NOKEY
        /\ \A i \in 1..(n - 1) : /\ sc[l[i]].next = l[i + 1]
                                 /\ sc[l[i + 1]].prev = l[i]

\* C19 witness: a truncation batch has just run after the promotion of an
\* entry from inside the list, and entries are left
C19_AfterBatch ==
    /\ pc[1] = "returned"
    /\ evicted # {}
    /\ budget = MaxHits
    /\ hashmapSize(font[1].string_cache)
         >= STRING_CACHE_MAX_ENTRIES - STRING_CACHE_TRUNCATE_ENTRIES
    /\ font[1].string_cache_tail = CallKey

\* the font f with an empty string cache
Uncached(f) == [f EXCEPT !.string_cache = <<>>, !.string_cache_head = NOKEY,
                         !.string_cache_tail = NOKEY]

\* C20: for every cached (s, W), gr_ttf_maxExW(s, font, W) returns what it
\* returns from the same font without the cached entries
C20_SameCachedOrNot ==
    \A k \in DOMAIN font[1].string_cache :
        gr_ttf_maxExW(font[1], k[1], k[2]).res
            = gr_ttf_maxExW(Uncached(font[1]), k[1], k[2]).res

\* t is inside, or has just left, one of the two decoding loops
InDecodeLoop(t) == call[t].text_itr > 0

\* C21: the decoding loops of the shaper and of bounded measure read no
\* byte behind the terminator of the text (offset strlen + 1 is the
\* terminator), end only by reading the terminator or by the width test,
\* never by a fault, and produce at most strlen(text) glyph indices
C21_DecoderStaysInString ==
    \A t \in Threads :
        InDecodeLoop(t)
            => /\ call[t].reads <= Len(call[t].s) + 1
               /\ Len(call[t].char_idxs) <= Len(call[t].s)
               /\ call[t].max_len <= Len(call[t].s)
               /\ pc[t] # "crashed"

\* every three-byte sequence of text, from offset i on, is complete
RECURSIVE CompleteFrom(_, _)
CompleteFrom(text, i) ==
    IF i > Len(text) THEN TRUE
    ELSE IF text[i] < 128 THEN CompleteFrom(text, i + 1)
    ELSE i + 2 <= Len(text) /\ CompleteFrom(text, i + 3)

\* C21, the part that holds: for a text whose sequences are all complete
\* the loops stay inside the string, whatever lies behind it, and the
\* indices they produce are the first ones of Decode(text)
C21_CompleteTextStaysInString ==
    \A t \in Threads :
        (InDecodeLoop(t) /\ CompleteFrom(call[t].s, 1))
            => /\ call[t].reads <= Len(call[t].s) + 1
               /\ pc[t] # "crashed"
               /\ call[t].max_len <= Len(Decode(call[t].s))
               /\ SubSeq(Decode(call[t].s), 1, Len(call[t].char_idxs))
                    = call[t].char_idxs

\* a render of U+4E2D has read its three bytes and the terminator
C21_CompleteTextDecoded ==
    /\ pc[1] = "render_rest"
    /\ call[1].s = <<228, 184, 173>>
    /\ call[1].beyond[1] # 0
    /\ call[1].reads = 4
    /\ call[1].char_idxs = <<4>>

====
